---- MODULE Spec2Model ----
(***************************************************************************)
(* Resume-search service: startup (main.py module level), the persistent   *)
(* collection (chroma_utils.py), the retrieval tool, the single-pass agent *)
(* and the staged pipeline (agents.py), and the two HTTP handlers          *)
(* search_resumes / chat_resumes (main.py).                                *)
(*                                                                         *)
(* Text is a sequence of tokens (a token is a string); whitespace tokens   *)
(* are the members of Whitespace, so that str.strip() and concatenation    *)
(* are computed, not assumed.                                              *)
(***************************************************************************)
EXTENDS Integers, Sequences, FiniteSets, TLC

VARIABLES env_key, proc, startup_log, opens, starts, disk_at_start,
          collection, memory, req

vars == <<env_key, proc, startup_log, opens, starts, disk_at_start,
          collection, memory, req>>

(* ---------------------------------------------------------------- bounds *)

\* process starts explored (first start plus restarts over the same disk)
MaxStarts == 2
\* longest chat_history a request carries
MaxHist == 2
\* entries of a pre-existing stored collection (SpecStore)
MaxDocs == 6
\* tool invocations of one single-pass agent turn
MaxIterations == 2

(* ------------------------------------------------------------------ text *)

Whitespace == {" ", "\n", "\t"}

RECURSIVE LStrip(_)
LStrip(t) ==
    IF t # <<>> /\ Head(t) \in Whitespace THEN LStrip(Tail(t)) ELSE t

RECURSIVE RStrip(_)
RStrip(t) ==
    IF t # <<>> /\ t[Len(t)] \in Whitespace
    THEN RStrip(SubSeq(t, 1, Len(t) - 1))
    ELSE t

\* str.strip()
Strip(t) == RStrip(LStrip(t))

Min(a, b) == IF a <= b THEN a ELSE b

Abs(x) == IF x < 0 THEN -x ELSE x

Range(s) == {s[i] : i \in 1..Len(s)}

(* ------------------------------------------------------------- seed data *)

\* a metadata dict is the set of its <<key, value>> items
Meta(n, e, r) == {<<"name", <<n>>>>, <<"experience", <<e>>>>, <<"role", <<r>>>>}

Resume(i, n, c, e, r) ==
    [id |-> i, name |-> <<n>>, content |-> <<c>>, metadata |-> Meta(n, e, r)]

RESUMES == <<
    Resume("resume_1", "Alice Johnson",
           "Alice Johnson - Senior Python Developer.", "8 years", "Python Developer"),
    Resume("resume_2", "Bob Smith",
           "Bob Smith - Data Scientist.", "5 years", "Data Scientist"),
    Resume("resume_3", "Charlie Brown",
           "Charlie Brown - Junior Web Developer.", "2 years", "Web Developer"),
    Resume("resume_4", "Diana Prince",
           "Diana Prince - Full Stack Engineer.", "10 years", "Full Stack Engineer"),
    Resume("resume_5", "Eve Adams",
           "Eve Adams - DevOps Engineer.", "7 years", "DevOps Engineer"),
    Resume("resume_6", "Frank White",
           "Frank White - Product Manager.", "6 years", "Product Manager"),
    Resume("resume_7", "Grace Lee",
           "Grace Lee - UX/UI Designer.", "4 years", "UX/UI Designer"),
    Resume("resume_8", "Henry Green",
           "Henry Green - Senior Data Engineer.", "9 years", "Data Engineer"),
    Resume("resume_9", "Siddiq Barbhuiya",
           "Siddiq Barbhuiya - Software Engineer.", "4 years", "Software Engineer") >>

\* Document(page_content=resume["content"], metadata=resume["metadata"])
Document(resume) == [page_content |-> resume.content, metadata |-> resume.metadata]

(* ------------------------------------------------------ embedding store *)

\* a collection found on disk that this service did not seed: entry i of it
StoredDoc(i) ==
    LET n == <<"name", <<"Stored Person", ToString(i)>>>>
        e == <<"experience", <<ToString(i), " years">>>>
        r == <<"role", <<"Stored Role", ToString(i)>>>>
    IN  [page_content |-> <<"stored document", ToString(i)>>,
         metadata |-> CASE i % 4 = 1 -> {n, e, r}
                        [] i % 4 = 2 -> {n}
                        [] i % 4 = 3 -> {e, r}
                        [] OTHER     -> {}]

StoredCollection(n) == [i \in 1..n |-> StoredDoc(i)]

Q_python == <<"Python developer with Django experience">>
Q_data == <<"data scientist with machine learning">>
Queries == {Q_python, Q_data}

\* where each seed resume lies on the (one-dimensional) embedding axis
SeedPosition == <<1, 6, 3, 2, 4, 9, 8, 5, 2>>

\* OpenAIEmbeddings: an opaque, deterministic map from text to a vector
Embedding(t) ==
    IF \E i \in DOMAIN RESUMES : RESUMES[i].content = t
    THEN SeedPosition[CHOOSE i \in DOMAIN RESUMES : RESUMES[i].content = t]
    ELSE IF \E i \in 1..(MaxDocs + 1) : StoredDoc(i).page_content = t
    THEN (3 * (CHOOSE i \in 1..(MaxDocs + 1) : StoredDoc(i).page_content = t)) % 7
    ELSE IF t = Q_python THEN 1
    ELSE IF t = Q_data THEN 6
    ELSE 4

\* the store's distance metric between a query text and a stored entry
Distance(query, doc) == Abs(Embedding(query) - Embedding(doc.page_content))

\* every answer a k-nearest query may give: k entries (all of them when there
\* are fewer), nearest first, ties broken either way; entries are named by
\* their position in the collection
RECURSIVE NearestSeqs(_, _, _)
NearestSeqs(dist, remaining, k) ==
    IF k = 0 \/ remaining = {}
    THEN {<<>>}
    ELSE LET best == {i \in remaining : \A j \in remaining : dist[i] <= dist[j]}
         IN  UNION {{<<i>> \o s : s \in NearestSeqs(dist, remaining \ {i}, k - 1)}
                    : i \in best}

\* ChromaDBManager.search_resumes -> Chroma.similarity_search(query, k):
\* the query is embedded once and compared with every stored entry
SimilaritySearch(coll, query, k) ==
    LET dist == [i \in DOMAIN coll |-> Distance(query, coll[i])]
    IN  NearestSeqs(dist, DOMAIN coll, k)

\* ChromaDBManager.add_resumes: one new entry per resume, appended
AddResumes(coll, resumes) ==
    coll \o [i \in 1..Len(resumes) |-> Document(resumes[i])]

\* dict.get(key, default)
Get(metadata, key, default) ==
    IF \E p \in metadata : p[1] = key
    THEN (CHOOSE p \in metadata : p[1] = key)[2]
    ELSE default

NA == <<"N/A">>

(* ---------------------------------------------------------------- startup *)

EnvValues == {"unset", "empty", "set"}

KeyMissingNever(key) == FALSE

\* not os.getenv("OPENAI_API_KEY")
KeyMissing(key) == key \in {"unset", "empty"}

ProcessStart ==
    /\ proc = "stopped"
    /\ starts < MaxStarts
    /\ starts' = starts + 1
    /\ env_key' \in EnvValues
    /\ proc' = "check_key"
    /\ startup_log' = <<>>
    /\ opens' = 0
    /\ disk_at_start' = collection
    /\ memory' = <<>>
    /\ UNCHANGED <<collection, req>>

\* main.py 14-19
CheckKey ==
    /\ proc = "check_key"
    /\ proc' = IF KeyMissing(env_key) THEN "aborted" ELSE "open_store"
    /\ UNCHANGED <<env_key, startup_log, opens, starts, disk_at_start, collection, memory, req>>

\* main.py 25: db_manager = ChromaDBManager()
OpenStore ==
    /\ proc = "open_store"
    /\ opens' = opens + 1
    /\ startup_log' = Append(startup_log, "open_store")
    /\ proc' = "seed"
    /\ UNCHANGED <<env_key, starts, disk_at_start, collection, memory, req>>

\* main.py 31-44; each flag says whether that call raises
SeedResult(coll, count1_raises, count2_raises, add1_raises, add2_raises) ==
    LET fallback(log) ==
            IF add2_raises
            THEN [proc |-> "crashed", coll |-> coll, log |-> log \o <<"add_resumes!">>]
            ELSE [proc |-> "import_agents", coll |-> AddResumes(coll, RESUMES),
                  log |-> log \o <<"add_resumes">>]
    IN  IF count1_raises THEN fallback(<<"count!">>)
        ELSE IF Len(coll) = 0
        THEN IF add1_raises THEN fallback(<<"count", "add_resumes!">>)
             ELSE [proc |-> "import_agents", coll |-> AddResumes(coll, RESUMES),
                   log |-> <<"count", "add_resumes">>]
        ELSE IF count2_raises THEN fallback(<<"count", "count!">>)
             ELSE [proc |-> "import_agents", coll |-> coll, log |-> <<"count", "count">>]

Seed ==
    /\ proc = "seed"
    /\ \E c1, c2, a1, a2 \in BOOLEAN :
          LET res == SeedResult(collection, c1, c2, a1, a2)
          IN  /\ proc' = res.proc
              /\ collection' = res.coll
              /\ startup_log' = startup_log \o res.log
    /\ UNCHANGED <<env_key, opens, starts, disk_at_start, memory, req>>

\* main.py 49-53: importing agents opens the store again (agents.py 16),
\* then both agents are built
ImportAgents ==
    /\ proc = "import_agents"
    /\ opens' = opens + 1
    /\ startup_log' = startup_log \o <<"open_store", "create_agents">>
    /\ proc' = "serving"
    /\ UNCHANGED <<env_key, starts, disk_at_start, collection, memory, req>>

(* ------------------------------------------------------- request records *)

\* main.py 25: the instance the direct search endpoint queries
MainDbManager == "main.db_manager"

\* agents.py 16: the instance search_resumes_tool queries
AgentsDbManager == "agents.db_manager"

Slots == {1, 2}

ChatMessage(role, content) == [role |-> role, content |-> content]
HumanMessage(content) == [type |-> "HumanMessage", content |-> content]
AIMessage(content) == [type |-> "AIMessage", content |-> content]

IdleReq ==
    [kind |-> "none", pc |-> "idle",
     \* request body
     query |-> <<>>, user_message |-> <<>>, chat_history |-> <<>>, agent_type |-> "",
     \* the body's agent_type field as sent ("<omitted>" when absent)
     body_agent_type |-> "",
     \* the argument of the one ainvoke call and the output it returned
     invoked_input |-> <<>>, invoked_history |-> <<>>, agent_output |-> <<>>,
     \* locals of the handler, the agent turn and the pipeline state
     lc_chat_history |-> <<>>, search_query |-> <<>>, hits |-> <<>>,
     \* the ChromaDBManager instance the last store query went through
     store_used |-> "",
     search_results |-> <<>>, llm_output |-> <<>>, final_response |-> <<>>,
     iterations |-> 0,
     \* what the request did: leaf external calls in order, agent invocations,
     \* pipeline nodes entered
     log |-> <<>>, single_invocations |-> 0, multi_invocations |-> 0, trace |-> <<>>,
     \* HTTP response
     status |-> 0, detail |-> <<>>, message |-> <<>>, results |-> <<>>,
     response |-> <<>>, updated_chat_history |-> <<>>]

\* one leaf external call: its site, and the text of the exception it raised
\* (ok = FALSE) or <<>>
Call(name, ok, exc) == [call |-> name, ok |-> ok, exc |-> exc]

\* texts of the exceptions an external call may raise
ExcTexts == {<<"Connection error.">>, <<"Rate limit reached">>}

\* main.py 115-121
FormatResumeResult(doc) ==
    [name |-> Get(doc.metadata, "name", NA),
     role |-> Get(doc.metadata, "role", NA),
     experience |-> Get(doc.metadata, "experience", NA),
     content_snippet |-> doc.page_content]

FormatToolRecordNoDefault(doc) ==
    [name |-> Get(doc.metadata, "name", <<>>),
     role |-> Get(doc.metadata, "role", <<>>),
     experience |-> Get(doc.metadata, "experience", <<>>),
     content_snippet |-> doc.page_content]

\* agents.py 30-36
FormatToolRecord(doc) ==
    [name |-> Get(doc.metadata, "name", NA),
     role |-> Get(doc.metadata, "role", NA),
     experience |-> Get(doc.metadata, "experience", NA),
     content_snippet |-> doc.page_content]

DirectSearchK6 == 5 + 1

\* main.py 112: k=5
DirectSearchK == 5

\* agents.py 27: k=3
ToolK == 3

ErrorResponseNoText(rq, prefix, exc) ==
    [rq EXCEPT !.pc = "done", !.status = 500, !.detail = prefix]

\* raise HTTPException(status_code=500, detail=f"<prefix>{str(e)}")
ErrorResponse(rq, prefix, exc) ==
    [rq EXCEPT !.pc = "done", !.status = 500, !.detail = prefix \o exc]

SearchErrorPrefix == <<"Error during resume search: ">>
ChatErrorPrefix == <<"Error during chat: ">>
SearchMessage == <<"Search completed successfully.">>

RetainedLastTurn(mem, rq) ==
    IF rq.pc = "done" /\ rq.kind = "chat" /\ rq.status = 200
    THEN rq.updated_chat_history
    ELSE mem

\* conversation data the process-wide agent objects hold after a handler
\* step: the AgentExecutor is built without a memory (agents.py 60) and the
\* graph is compiled without a checkpointer (agents.py 230), so a step
\* leaves what was there
Retained(mem, rq) == mem

(* ---------------------------------------------------- POST /search_resumes *)

SearchArrive(r) ==
    /\ proc = "serving"
    /\ req[r].pc = "idle"
    /\ \E q \in Queries :
          req' = [req EXCEPT ![r] = [IdleReq EXCEPT !.kind = "search", !.pc = "search",
                                                    !.query = q]]
    /\ memory' = Retained(memory, req'[r])
    /\ UNCHANGED <<env_key, proc, startup_log, opens, starts, disk_at_start, collection>>

SearchResponseNotFound(rq, hits) ==
    IF hits = <<>>
    THEN [rq EXCEPT !.pc = "done", !.status = 404, !.detail = <<"No resumes found">>]
    ELSE [rq EXCEPT !.pc = "done", !.status = 200, !.hits = hits,
                    !.message = SearchMessage,
                    !.results = [i \in 1..Len(hits) |-> FormatResumeResult(collection[hits[i]])]]

\* main.py 113-122
SearchResponse(rq, hits) ==
    [rq EXCEPT !.pc = "done", !.status = 200, !.hits = hits,
               !.message = SearchMessage,
               !.results = [i \in 1..Len(hits) |-> FormatResumeResult(collection[hits[i]])]]

\* main.py 110-125
SearchRun(r) ==
    /\ proc = "serving"
    /\ req[r].pc = "search"
    /\ \/ \E hits \in SimilaritySearch(collection, req[r].query, DirectSearchK) :
             req' = [req EXCEPT ![r] =
                        SearchResponse([req[r] EXCEPT !.store_used = MainDbManager,
                                                      !.log = Append(@, Call("similarity_search", TRUE, <<>>))],
                                       hits)]
       \/ \E e \in ExcTexts :
             req' = [req EXCEPT ![r] =
                        ErrorResponse([req[r] EXCEPT !.store_used = MainDbManager,
                                                     !.log = Append(@, Call("similarity_search", FALSE, e))],
                                      SearchErrorPrefix, e)]
    /\ memory' = Retained(memory, req'[r])
    /\ UNCHANGED <<env_key, proc, startup_log, opens, starts, disk_at_start, collection>>

\* the response is sent and the handler's locals are dropped
Deliver(r) ==
    /\ req[r].pc = "done"
    /\ req' = [req EXCEPT ![r] = IdleReq]
    /\ memory' = Retained(memory, req'[r])
    /\ UNCHANGED <<env_key, proc, startup_log, opens, starts, disk_at_start, collection>>

\* the process ends (or is killed); requests in flight are lost, the disk stays
Stop ==
    /\ proc \in {"serving", "aborted", "crashed"}
    /\ proc' = "stopped"
    /\ req' = [r \in Slots |-> IdleReq]
    /\ memory' = <<>>
    /\ UNCHANGED <<env_key, startup_log, opens, starts, disk_at_start, collection>>

(* ------------------------------------------------------ POST /chat_resumes *)

UserMessages == {<<"Find me a Python developer">>, <<"any data people?">>}

\* ChatMessage.role is a free string: "system" stands for any other role
HistoryMessages ==
    {ChatMessage("human", <<"hello">>), ChatMessage("ai", <<"hi there">>),
     ChatMessage("system", <<"be brief">>)}

Histories == UNION {[1..n -> HistoryMessages] : n \in 0..MaxHist}

AgentTypes == {"single", "multi", "auto"}

\* the agent_type field of a request body: a string, or absent
BodyAgentTypes == AgentTypes \cup {"<omitted>"}

\* main.py 90: agent_type: str = "single"
AgentTypeField(field) == IF field = "<omitted>" THEN "single" ELSE field

\* what the rewriting LLM may answer (raw content)
RewriteOutputs == {Q_python, <<" ", "data scientist with machine learning", "\n">>}
\* what the synthesis LLM may answer (raw content)
SynthOutputs == {<<"Alice Johnson is a strong match.">>,
                 <<"\n", "Bob Smith fits.", " ", "He has 5 years.", " ">>}
\* the single-pass agent's LLM: a function call with a query, or a final text
ToolQueries == {Q_data}
AgentOutputs == {<<"I found these resumes.">>, <<" ", "No resumes found.">>}

ApologyText ==
    <<"I couldn't find any resumes matching your request. Could you please try rephrasing or providing more details?">>
StoppedText == <<"Agent stopped due to iteration limit or time limit.">>
InvalidAgentDetail == <<"Invalid agent_type. Must be 'single' or 'multi'.">>

\* str(HTTPException(status_code=400, detail=d))
HttpExceptionStr(status, detail) == <<ToString(status), ": ">> \o detail

ToLangChainKeepAll(history) ==
    [i \in 1..Len(history) |->
        IF history[i].role = "human" THEN HumanMessage(history[i].content)
        ELSE AIMessage(history[i].content)]

\* main.py 143-149
RECURSIVE ToLangChain(_)
ToLangChain(history) ==
    IF history = <<>> THEN <<>>
    ELSE LET msg == Head(history)
         IN  (IF msg.role = "human" THEN <<HumanMessage(msg.content)>>
              ELSE IF msg.role = "ai" THEN <<AIMessage(msg.content)>>
              ELSE <<>>) \o ToLangChain(Tail(history))

ToPydanticAllHuman(lc) ==
    [i \in 1..Len(lc) |-> ChatMessage("human", lc[i].content)]

\* main.py 184-188
ToPydantic(lc) ==
    [i \in 1..Len(lc) |->
        IF lc[i].type = "HumanMessage" THEN ChatMessage("human", lc[i].content)
        ELSE ChatMessage("ai", lc[i].content)]

RouteDefaultSingle(agent_type) ==
    IF agent_type = "multi" THEN "multi" ELSE "single"

RouteSwapped(agent_type) ==
    IF agent_type = "single" THEN "multi"
    ELSE IF agent_type = "multi" THEN "single"
    ELSE "invalid"

\* main.py 153, 161, 173
Route(agent_type) ==
    IF agent_type = "single" THEN "single"
    ELSE IF agent_type = "multi" THEN "multi"
    ELSE "invalid"

\* main.py 177-193
ChatResponse(rq, ai_response_content) ==
    [rq EXCEPT !.pc = "done", !.status = 200,
               !.response = ai_response_content,
               !.updated_chat_history =
                   ToPydantic(rq.lc_chat_history
                              \o <<HumanMessage(rq.user_message), AIMessage(ai_response_content)>>)]

\* agents.py 224
EntryPoint == "query_understanding"

\* main.py 140-175: the handler up to its first suspension point
ChatArrive(r) ==
    /\ proc = "serving"
    /\ req[r].pc = "idle"
    /\ \E m \in UserMessages, h \in Histories, a \in BodyAgentTypes :
          LET rq == [IdleReq EXCEPT !.kind = "chat", !.user_message = m,
                                    !.chat_history = h, !.body_agent_type = a,
                                    !.agent_type = AgentTypeField(a),
                                    !.lc_chat_history = ToLangChain(h)]
          IN  req' = [req EXCEPT ![r] =
                 CASE Route(rq.agent_type) = "single" ->
                        [rq EXCEPT !.pc = "agent_decide", !.single_invocations = @ + 1,
                                   !.invoked_input = rq.user_message,
                                   !.invoked_history = rq.lc_chat_history]
                   [] Route(rq.agent_type) = "multi" ->
                        [rq EXCEPT !.pc = EntryPoint, !.multi_invocations = @ + 1,
                                   !.invoked_input = rq.user_message,
                                   !.invoked_history = rq.lc_chat_history]
                   [] OTHER ->
                        \* the HTTPException(400) is raised inside the try block and
                        \* is caught by its "except Exception" (main.py 194-196)
                        ErrorResponse(rq, ChatErrorPrefix,
                                      HttpExceptionStr(400, InvalidAgentDetail))]
    /\ memory' = Retained(memory, req'[r])
    /\ UNCHANGED <<env_key, proc, startup_log, opens, starts, disk_at_start, collection>>

(* ------------------------------------------------------ single-pass agent *)

SingleAgentReturnKeepsRunning(rq, output) ==
    [ChatResponse([rq EXCEPT !.agent_output = output], output) EXCEPT !.pc = "agent_tool"]

\* main.py 156-160: ainvoke returns {"output": ...}; the handler answers with it
SingleAgentReturn(rq, output) ==
    ChatResponse([rq EXCEPT !.agent_output = output], output)

\* AgentExecutor: the LLM decides between a tool call and the final answer
AgentDecide(r) ==
    /\ proc = "serving"
    /\ req[r].pc = "agent_decide"
    /\ IF req[r].iterations >= MaxIterations
       THEN req' = [req EXCEPT ![r] = SingleAgentReturn(req[r], StoppedText)]
       ELSE \/ \E q \in ToolQueries :
                  req' = [req EXCEPT ![r] =
                             [req[r] EXCEPT !.pc = "agent_tool", !.search_query = q,
                                            !.log = Append(@, Call("llm", TRUE, <<>>))]]
            \/ \E out \in AgentOutputs :
                  req' = [req EXCEPT ![r] =
                             SingleAgentReturn([req[r] EXCEPT !.llm_output = out,
                                                              !.log = Append(@, Call("llm", TRUE, <<>>))],
                                               out)]
            \/ \E e \in ExcTexts :
                  req' = [req EXCEPT ![r] =
                             ErrorResponse([req[r] EXCEPT !.log = Append(@, Call("llm", FALSE, e))],
                                           ChatErrorPrefix, e)]
    /\ memory' = Retained(memory, req'[r])
    /\ UNCHANGED <<env_key, proc, startup_log, opens, starts, disk_at_start, collection>>

\* agents.py 19-37, run by the AgentExecutor
AgentTool(r) ==
    /\ proc = "serving"
    /\ req[r].pc = "agent_tool"
    /\ \/ \E hits \in SimilaritySearch(collection, req[r].search_query, ToolK) :
             req' = [req EXCEPT ![r] =
                        [req[r] EXCEPT !.pc = "agent_decide", !.hits = hits,
                                       !.store_used = AgentsDbManager,
                                       !.search_results =
                                           [i \in 1..Len(hits) |-> FormatToolRecord(collection[hits[i]])],
                                       !.iterations = @ + 1,
                                       !.log = Append(@, Call("similarity_search", TRUE, <<>>))]]
       \/ \E e \in ExcTexts :
             req' = [req EXCEPT ![r] =
                        ErrorResponse([req[r] EXCEPT !.store_used = AgentsDbManager,
                                                     !.log = Append(@, Call("similarity_search", FALSE, e))],
                                      ChatErrorPrefix, e)]
    /\ memory' = Retained(memory, req'[r])
    /\ UNCHANGED <<env_key, proc, startup_log, opens, starts, disk_at_start, collection>>

(* --------------------------------------------------------- staged pipeline *)

EdgesSkipSearch ==
    {<<"query_understanding", "response_generation">>,
     <<"resume_search", "response_generation">>,
     <<"response_generation", "END">>}

\* agents.py 225-227
Edges ==
    {<<"query_understanding", "resume_search">>,
     <<"resume_search", "response_generation">>,
     <<"response_generation", "END">>}

NextNode(node) == (CHOOSE e \in Edges : e[1] = node)[2]

\* the graph runtime after a node returned its update: follow the edge;
\* at END ainvoke returns the final state to main.py 172
AfterNode(rq, node) ==
    IF NextNode(node) = "END"
    THEN ChatResponse([rq EXCEPT !.agent_output = rq.final_response], rq.final_response)
    ELSE [rq EXCEPT !.pc = NextNode(node)]

Enter(rq, node) == [rq EXCEPT !.trace = Append(@, node)]

\* agents.py 82-105
QueryUnderstanding(r) ==
    /\ proc = "serving"
    /\ req[r].pc = "query_understanding"
    /\ LET rq == Enter(req[r], "query_understanding")
       IN  \/ \E out \in RewriteOutputs :
                 req' = [req EXCEPT ![r] =
                            AfterNode([rq EXCEPT !.search_query = Strip(out),
                                                 !.log = Append(@, Call("llm", TRUE, <<>>))],
                                      "query_understanding")]
           \/ \E e \in ExcTexts :
                 req' = [req EXCEPT ![r] =
                            ErrorResponse([rq EXCEPT !.log = Append(@, Call("llm", FALSE, e))],
                                          ChatErrorPrefix, e)]
    /\ memory' = Retained(memory, req'[r])
    /\ UNCHANGED <<env_key, proc, startup_log, opens, starts, disk_at_start, collection>>

StateQueryOfFirst(r) == req[1].search_query

\* agents.py 109: state["search_query"], read from the AgentState of the
\* invocation the node runs in (built per request at main.py 165-171)
StateQuery(r) == req[r].search_query

\* agents.py 107-117
ResumeSearch(r) ==
    /\ proc = "serving"
    /\ req[r].pc = "resume_search"
    /\ LET rq == Enter(req[r], "resume_search")
       IN  \/ \E hits \in SimilaritySearch(collection, StateQuery(r), ToolK) :
                 req' = [req EXCEPT ![r] =
                            AfterNode([rq EXCEPT !.hits = hits,
                                                 !.store_used = AgentsDbManager,
                                                 !.search_results =
                                                     [i \in 1..Len(hits) |-> FormatToolRecord(collection[hits[i]])],
                                                 !.log = Append(@, Call("similarity_search", TRUE, <<>>))],
                                      "resume_search")]
           \/ \E e \in ExcTexts :
                 req' = [req EXCEPT ![r] =
                            ErrorResponse([rq EXCEPT !.store_used = AgentsDbManager,
                                                    !.log = Append(@, Call("similarity_search", FALSE, e))],
                                          ChatErrorPrefix, e)]
    /\ memory' = Retained(memory, req'[r])
    /\ UNCHANGED <<env_key, proc, startup_log, opens, starts, disk_at_start, collection>>

SkipSynthesisNever(search_results) == FALSE

\* agents.py 177: "if not search_results"
SkipSynthesis(search_results) == search_results = <<>>

\* agents.py 166-209
ResponseGeneration(r) ==
    /\ proc = "serving"
    /\ req[r].pc = "response_generation"
    /\ LET rq == Enter(req[r], "response_generation")
       IN  IF SkipSynthesis(rq.search_results)
           THEN req' = [req EXCEPT ![r] =
                           AfterNode([rq EXCEPT !.final_response = ApologyText],
                                     "response_generation")]
           ELSE \/ \E out \in SynthOutputs :
                      req' = [req EXCEPT ![r] =
                                 AfterNode([rq EXCEPT !.llm_output = out,
                                                      !.final_response = Strip(out),
                                                      !.log = Append(@, Call("synthesis_llm", TRUE, <<>>))],
                                           "response_generation")]
                \/ \E e \in ExcTexts :
                      req' = [req EXCEPT ![r] =
                                 ErrorResponse([rq EXCEPT !.log = Append(@, Call("synthesis_llm", FALSE, e))],
                                               ChatErrorPrefix, e)]
    /\ memory' = Retained(memory, req'[r])
    /\ UNCHANGED <<env_key, proc, startup_log, opens, starts, disk_at_start, collection>>

(* ----------------------------------------------------------- specifications *)

Init ==
    /\ env_key = "unset"
    /\ proc = "stopped"
    /\ startup_log = <<>>
    /\ opens = 0
    /\ starts = 0
    /\ disk_at_start = <<>>
    /\ collection = <<>>
    /\ memory = <<>>
    /\ req = [r \in Slots |-> IdleReq]

\* the handlers over an arbitrary stored collection: a serving process whose
\* collection holds the first n entries of a store it did not seed
InitStore ==
    /\ env_key = "set"
    /\ proc = "serving"
    /\ startup_log = <<"open_store", "count", "count", "open_store", "create_agents">>
    /\ opens = 2
    /\ starts = 1
    /\ \E n \in 0..MaxDocs : collection = StoredCollection(n)
    /\ disk_at_start = collection
    /\ memory = <<>>
    /\ req = [r \in Slots |-> IdleReq]

\* requests are handled one at a time, in slot 1
Handle(r) ==
    \/ SearchArrive(r) \/ SearchRun(r)
    \/ ChatArrive(r)
    \/ AgentDecide(r) \/ AgentTool(r)
    \/ QueryUnderstanding(r) \/ ResumeSearch(r) \/ ResponseGeneration(r)
    \/ Deliver(r)

Next ==
    \/ ProcessStart \/ CheckKey \/ OpenStore \/ Seed \/ ImportAgents \/ Stop
    \/ Handle(1)

Spec == Init /\ [][Next]_vars

\* the serving process alone: no restart, the stored collection stays as found
NextStore == Handle(1)

SpecStore == InitStore /\ [][NextStore]_vars

\* the event loop runs a started agent turn on: a step of the turn that
\* stays possible is eventually taken
SpecAgentFair ==
    /\ InitStore /\ [][NextStore]_vars
    /\ WF_vars(AgentDecide(1)) /\ WF_vars(AgentTool(1))

\* what the overlapping requests send: a chat with at most one earlier human
\* entry, routed to the agent or to the pipeline
ConcHistories == {<<>>, <<ChatMessage("human", <<"hello">>)>>}

ConcInput(r) ==
    req[r].kind = "chat" =>
        /\ req[r].chat_history \in ConcHistories
        /\ req[r].body_agent_type \in {"single", "multi"}

\* a serving process, started once over the seeded collection
InitConc ==
    /\ env_key = "set"
    /\ proc = "serving"
    /\ startup_log = <<"open_store", "count", "add_resumes", "open_store", "create_agents">>
    /\ opens = 2
    /\ starts = 1
    /\ disk_at_start = <<>>
    /\ collection = AddResumes(<<>>, RESUMES)
    /\ memory = <<>>
    /\ req = [r \in Slots |-> IdleReq]

\* uvicorn runs the handlers of overlapping requests on one event loop (the
\* graph's nodes and the tool on worker threads): between two external calls
\* of one request any step of another request may run
NextConc == \E r \in Slots : Handle(r) /\ ConcInput(r)'

SpecConc == InitConc /\ [][NextConc]_vars

(* ------------------------------------------------------------------ claims *)

Done(r) == req[r].pc = "done"
ChatDone(r) == Done(r) /\ req[r].kind = "chat"
ValidAgent(r) == req[r].agent_type \in {"single", "multi"}
Failed(r) == \E i \in 1..Len(req[r].log) : ~req[r].log[i].ok
CallCount(r, name) == Cardinality({i \in 1..Len(req[r].log) : req[r].log[i].call = name})
Contains(text, part) ==
    \E i \in 1..(Len(text) + 1) :
        /\ i + Len(part) - 1 <= Len(text)
        /\ SubSeq(text, i, i + Len(part) - 1) = part

\* C1: every chat_resumes request whose agent_type is neither "single" nor
\* "multi" ends with HTTP status 400.
C1_InvalidAgentTypeIs400 ==
    \A r \in Slots : (ChatDone(r) /\ ~ValidAgent(r)) => req[r].status = 400

\* what the handler answers instead
C1_CodeAnswers500 ==
    \A r \in Slots : (ChatDone(r) /\ ~ValidAgent(r)) =>
        /\ req[r].status = 500
        /\ req[r].detail = ChatErrorPrefix \o <<"400", ": ">> \o InvalidAgentDetail

\* C2 as stated: the returned updated_chat_history is the input chat_history,
\* entry for entry, followed by the human entry (user_message) and the ai
\* entry (the reply).
C2_HistoryRoundTripAllEntries ==
    \A r \in Slots : (ChatDone(r) /\ req[r].status = 200) =>
        req[r].updated_chat_history =
            req[r].chat_history \o <<ChatMessage("human", req[r].user_message),
                                     ChatMessage("ai", req[r].response)>>

HumanOrAi(m) == m.role \in {"human", "ai"}

\* C2 amended: the returned updated_chat_history is the input chat_history
\* without its entries of a role other than "human" or "ai", entry for entry
\* and in order, followed by exactly the human entry (user_message) and then
\* the ai entry (the reply).
C2_HistoryRoundTrip ==
    \A r \in Slots : (ChatDone(r) /\ req[r].status = 200) =>
        req[r].updated_chat_history =
            SelectSeq(req[r].chat_history, HumanOrAi)
                \o <<ChatMessage("human", req[r].user_message),
                     ChatMessage("ai", req[r].response)>>

C2_Witness ==
    \E r \in Slots :
        /\ ChatDone(r) /\ req[r].status = 200
        /\ Len(req[r].chat_history) = 2
        /\ req[r].chat_history[1].role = "system"
        /\ req[r].chat_history[2].role = "ai"
        /\ Len(req[r].updated_chat_history) = 3

RanSynthesis(r) ==
    /\ Done(r)
    /\ req[r].trace # <<>>
    /\ req[r].trace[Len(req[r].trace)] = "response_generation"

\* text with its leading and trailing whitespace tokens removed
IsStripped(result, raw) ==
    \E i \in 1..(Len(raw) + 1), j \in 0..Len(raw) :
        /\ result = SubSeq(raw, i, j)
        /\ \A k \in 1..Len(raw) : (k < i \/ k > j) => raw[k] \in Whitespace
        /\ result # <<>> => (result[1] \notin Whitespace /\ result[Len(result)] \notin Whitespace)

\* C3 as stated: zero retrieval results => no synthesis LLM call and the final
\* response is the fixed apology; at least one result => the synthesis LLM is
\* called exactly once and the final response is its output.
C3_SynthesisOutputVerbatim ==
    \A r \in Slots : RanSynthesis(r) =>
        /\ req[r].search_results = <<>> =>
              /\ CallCount(r, "synthesis_llm") = 0
              /\ req[r].status = 200 /\ req[r].response = ApologyText
        /\ req[r].search_results # <<>> =>
              /\ CallCount(r, "synthesis_llm") = 1
              /\ req[r].status = 200 => req[r].response = req[r].llm_output

\* C3 amended: zero retrieval results => no synthesis LLM call and the final
\* response is exactly the fixed apology; at least one result => the
\* synthesis LLM is called exactly once and the final response is its output
\* with leading and trailing whitespace stripped.
C3_SynthesisOrApology ==
    \A r \in Slots : RanSynthesis(r) =>
        /\ req[r].search_results = <<>> =>
              /\ CallCount(r, "synthesis_llm") = 0
              /\ req[r].status = 200 /\ req[r].response = ApologyText
        /\ req[r].search_results # <<>> =>
              /\ CallCount(r, "synthesis_llm") = 1
              /\ req[r].status = 200 => IsStripped(req[r].response, req[r].llm_output)

C3_Witness ==
    \E r \in Slots :
        /\ RanSynthesis(r) /\ req[r].status = 200
        /\ req[r].search_results = <<>>
        /\ req[r].response = ApologyText
        /\ CallCount(r, "llm") = 1

C3_WitnessSynthesis ==
    \E r \in Slots :
        /\ RanSynthesis(r) /\ req[r].status = 200
        /\ req[r].search_results # <<>>
        /\ req[r].response # req[r].llm_output

SearchOk(r) == Done(r) /\ req[r].kind = "search" /\ req[r].status = 200

\* C4: a direct search that the store answers returns min(5, collection size)
\* results and never more than 5, one per store entry returned, nearest
\* first, and every returned entry is at least as near to the query as every
\* entry that was not returned.
C4_TopFiveNearest ==
    \A r \in Slots : SearchOk(r) =>
        LET res == req[r].results
            hits == req[r].hits
            d(i) == Distance(req[r].query, collection[i])
        IN  /\ Len(res) = Min(5, Len(collection))
            /\ Len(res) <= 5
            /\ Len(hits) = Len(res)
            /\ \A i \in 1..Len(hits) : hits[i] \in 1..Len(collection)
            /\ \A i, j \in 1..Len(hits) : i # j => hits[i] # hits[j]
            /\ \A i \in 1..Len(res) :
                  res[i].content_snippet = collection[hits[i]].page_content
            /\ \A i, j \in 1..Len(hits) : i < j => d(hits[i]) <= d(hits[j])
            /\ \A i \in 1..Len(hits) : \A u \in (1..Len(collection)) \ Range(hits) :
                  d(hits[i]) <= d(u)

C4_Witness ==
    \E r \in Slots :
        /\ SearchOk(r)
        /\ Len(collection) > 5
        /\ Len(req[r].results) = 5
        /\ req[r].hits # <<1, 2, 3, 4, 5>>

C4_WitnessFewer ==
    \E r \in Slots : SearchOk(r) /\ Len(collection) = 3 /\ Len(req[r].results) = 3

\* C5: on an empty collection a direct search that the store answers returns
\* HTTP 200 with an empty results list and the success message; the empty
\* result is never turned into an error response.
C5_EmptyCollectionIs200 ==
    \A r \in Slots :
        (Done(r) /\ req[r].kind = "search" /\ collection = <<>> /\ ~Failed(r)) =>
            /\ req[r].status = 200
            /\ req[r].results = <<>>
            /\ req[r].message = <<"Search completed successfully.">>
            /\ req[r].detail = <<>>

C5_Witness ==
    \E r \in Slots :
        /\ Done(r) /\ req[r].kind = "search" /\ collection = <<>>
        /\ Len(req[r].log) = 1 /\ req[r].log[1].ok
        /\ req[r].status = 200

\* C6: whenever an external call raises during a search_resumes or
\* chat_resumes request, the request ends with HTTP 500 whose detail
\* contains the exception text, returns no results and no
\* updated_chat_history, and the failed call is the request's last external
\* call (it is not retried).
C6_ExternalFailureIs500 ==
    \A r \in Slots : Failed(r) =>
        LET n == Len(req[r].log)
        IN  /\ Done(r)
            /\ req[r].status = 500
            /\ ~req[r].log[n].ok
            /\ \A i \in 1..(n - 1) : req[r].log[i].ok
            /\ req[r].log[n].exc # <<>>
            /\ Contains(req[r].detail, req[r].log[n].exc)
            /\ req[r].results = <<>>
            /\ req[r].updated_chat_history = <<>>
            /\ req[r].response = <<>>

C6_Witness ==
    \E r \in Slots :
        /\ Failed(r) /\ req[r].kind = "chat" /\ req[r].status = 500
        /\ Len(req[r].log) = 3
        /\ req[r].log[3].call = "synthesis_llm"

\* C7: a chat_resumes request whose agent_type is neither "single" nor
\* "multi" performs no external call between arrival and response: no LLM
\* call, no embedding or store query, no invocation of the single agent or of
\* the pipeline.
C7_InvalidAgentTypeNoExternalCall ==
    \A r \in Slots : (req[r].kind = "chat" /\ ~ValidAgent(r)) =>
        /\ req[r].log = <<>>
        /\ req[r].single_invocations = 0
        /\ req[r].multi_invocations = 0
        /\ req[r].trace = <<>>
        /\ req[r].hits = <<>>
        /\ req[r].pc \notin {"agent_decide", "agent_tool", "query_understanding",
                             "resume_search", "response_generation"}

C7_Witness ==
    \E r \in Slots :
        /\ ChatDone(r) /\ req[r].agent_type = "auto"
        /\ req[r].chat_history # <<>>

Stages == <<"query_understanding", "resume_search", "response_generation">>

\* C8: a pipeline run executes query understanding, retrieval and response
\* synthesis exactly once each, in that order, and then terminates; when a
\* stage fails no later stage runs and no earlier stage runs again.
C8_PipelineOrder ==
    \A r \in Slots : req[r].multi_invocations > 0 =>
        LET t == req[r].trace
        IN  /\ req[r].multi_invocations = 1
            /\ Len(t) <= 3
            /\ t = SubSeq(Stages, 1, Len(t))
            /\ ~Done(r) => (Len(t) < 3 /\ req[r].pc = Stages[Len(t) + 1])
            /\ (Done(r) /\ req[r].status = 200) => t = Stages
            /\ (Done(r) /\ req[r].status # 200) =>
                  (Failed(r) /\ t # <<>> /\ req[r].status = 500)
            /\ Failed(r) => Done(r)

C8_Witness ==
    \E r \in Slots :
        /\ ChatDone(r) /\ req[r].status = 200
        /\ req[r].trace = <<"query_understanding", "resume_search", "response_generation">>
        /\ Len(req[r].log) = 3

C8_WitnessFailure ==
    \E r \in Slots :
        /\ ChatDone(r) /\ req[r].status = 500
        /\ req[r].trace = <<"query_understanding", "resume_search">>

ToolRan(r) ==
    /\ req[r].kind = "chat"
    /\ \E i \in 1..Len(req[r].log) :
          req[r].log[i].call = "similarity_search" /\ req[r].log[i].ok

FieldOf(metadata, key, value) ==
    IF \E p \in metadata : p[1] = key
    THEN <<key, value>> \in metadata
    ELSE value = <<"N/A">>

\* C9: the retrieval tool returns at most 3 records, one per store result and
\* in the store's order, each {name, role, experience, content} with the
\* entry's metadata values ("N/A" for an absent key) and the entry's full
\* stored text.
C9_ToolRecords ==
    \A r \in Slots : ToolRan(r) =>
        LET recs == req[r].search_results
            hits == req[r].hits
        IN  /\ Len(recs) <= 3
            /\ Len(recs) = Len(hits)
            /\ Len(recs) = Min(3, Len(collection))
            /\ \A i \in 1..Len(recs) :
                  LET doc == collection[hits[i]]
                  IN  /\ DOMAIN recs[i] = {"name", "role", "experience", "content_snippet"}
                      /\ FieldOf(doc.metadata, "name", recs[i].name)
                      /\ FieldOf(doc.metadata, "role", recs[i].role)
                      /\ FieldOf(doc.metadata, "experience", recs[i].experience)
                      /\ recs[i].content_snippet = doc.page_content

C9_Witness ==
    \E r \in Slots :
        /\ ToolRan(r)
        /\ Len(req[r].search_results) = 3
        /\ \E i \in 1..3 : /\ req[r].search_results[i].name = <<"N/A">>
                           /\ req[r].search_results[i].role # <<"N/A">>
        /\ \E i \in 1..3 : req[r].search_results[i].name # <<"N/A">>

\* C10: with the credential variable absent at process start, startup aborts
\* before the store is opened, before seeding and before any request is
\* served; nothing external is contacted and the collection on disk is as it
\* was.
C10_MissingKeyAborts ==
    (env_key = "unset" /\ proc \notin {"stopped", "check_key"}) =>
        /\ proc = "aborted"
        /\ opens = 0
        /\ startup_log = <<>>
        /\ collection = disk_at_start
        /\ \A r \in Slots : req[r] = IdleReq

C10_Witness ==
    /\ env_key = "unset"
    /\ proc = "aborted"
    /\ starts = 2
    /\ Len(collection) = Len(RESUMES)

\* the LangChain form of a history: its human and ai entries, in order
ConvertedHistory(history) ==
    LET kept == SelectSeq(history, HumanOrAi)
    IN  [i \in 1..Len(kept) |->
            [type |-> IF kept[i].role = "human" THEN "HumanMessage" ELSE "AIMessage",
             content |-> kept[i].content]]

RanSingleAgent(r) ==
    \/ req[r].pc \in {"agent_decide", "agent_tool"}
    \/ req[r].iterations > 0
    \/ CallCount(r, "llm") > 0 /\ req[r].trace = <<>>

RanPipeline(r) ==
    \/ req[r].pc \in {"query_understanding", "resume_search", "response_generation"}
    \/ req[r].trace # <<>>

\* C11: chat_resumes routes by agent_type: "single" (also the default of an
\* omitted field) invokes the single-pass agent exactly once and never the
\* pipeline; "multi" invokes the pipeline exactly once and never the single
\* agent; the agent is invoked with the request's user_message and converted
\* chat_history, and the returned response is that agent's output.
C11_RoutesByAgentType ==
    \A r \in Slots : req[r].kind = "chat" =>
        /\ req[r].body_agent_type \in {"single", "<omitted>"} =>
              /\ req[r].single_invocations = 1 /\ req[r].multi_invocations = 0
              /\ ~RanPipeline(r)
              /\ ~Done(r) => RanSingleAgent(r)
        /\ req[r].body_agent_type = "multi" =>
              /\ req[r].multi_invocations = 1 /\ req[r].single_invocations = 0
              /\ ~RanSingleAgent(r)
              /\ ~Done(r) => RanPipeline(r)
        /\ req[r].body_agent_type \in {"single", "<omitted>", "multi"} =>
              /\ req[r].invoked_input = req[r].user_message
              /\ req[r].invoked_history = ConvertedHistory(req[r].chat_history)
              /\ (Done(r) /\ req[r].status = 200) =>
                    /\ req[r].response = req[r].agent_output
                    /\ req[r].body_agent_type = "multi" => req[r].response = req[r].final_response
                    /\ req[r].body_agent_type # "multi" =>
                          req[r].response \in {req[r].llm_output, StoppedText}

C11_Witness ==
    \E r \in Slots :
        /\ ChatDone(r) /\ req[r].status = 200
        /\ req[r].body_agent_type = "<omitted>"
        /\ req[r].single_invocations = 1
        /\ req[r].iterations = 1
        /\ Len(req[r].chat_history) > Len(req[r].invoked_history)

C11_WitnessMulti ==
    \E r \in Slots :
        /\ ChatDone(r) /\ req[r].status = 200
        /\ req[r].body_agent_type = "multi"
        /\ req[r].multi_invocations = 1

EntriesOf(resume) ==
    {j \in DOMAIN collection : collection[j] = Document(resume)}

\* C12: after any sequence of startups (restarts over the persisted
\* collection and startups whose count() raises included) the collection
\* holds exactly one entry per seed resume: seeding never stores a resume a
\* second time.
C12_OneEntryPerResume ==
    proc = "serving" =>
        /\ \A i \in DOMAIN RESUMES : Cardinality(EntriesOf(RESUMES[i])) = 1
        /\ Len(collection) = Len(RESUMES)

\* what the code keeps instead: whole copies of the seed data, one per
\* successful add_resumes
C12_WholeCopies ==
    /\ \A i, k \in DOMAIN RESUMES :
          Cardinality(EntriesOf(RESUMES[i])) = Cardinality(EntriesOf(RESUMES[k]))
    /\ proc = "serving" => Len(collection) >= Len(RESUMES)
    /\ Len(collection) <= starts * Len(RESUMES)

\* C13: the service is stateless across calls: while it serves, no request
\* step adds, updates or deletes an entry of the collection, the process keeps
\* no conversation data, a delivered request leaves nothing of itself behind,
\* and an arriving chat request starts from its own chat_history alone.
C13_Stateless ==
    [][(proc = "serving" /\ proc' = "serving") =>
          /\ collection' = collection
          /\ memory = <<>> /\ memory' = <<>>
          /\ \A r \in Slots :
                /\ (req[r].pc = "done" /\ req'[r].pc # "done") => req'[r] = IdleReq
                /\ (req[r].pc = "idle" /\ req'[r].kind = "chat") =>
                      /\ req[r] = IdleReq
                      /\ req'[r].lc_chat_history = ConvertedHistory(req'[r].chat_history)
                      /\ req'[r].invoked_history \in {<<>>, req'[r].lc_chat_history}]_vars

C13_Witness ==
    \E r \in Slots :
        /\ ChatDone(r) /\ req[r].status = 200
        /\ Len(req[r].updated_chat_history) = 4
        /\ memory = <<>>
        /\ starts = 2
        /\ collection = disk_at_start
        /\ collection # <<>>

\* C14: the store is opened exactly once per process, at startup, and every
\* later access reuses that one connection: the direct search endpoint and
\* the agents' retrieval tool query through the same store instance.
C14_SingleStoreInstance ==
    /\ opens <= 1
    /\ proc = "serving" => opens = 1
    /\ \A r \in Slots : req[r].store_used \in {"", "main.db_manager"}

\* what the code does instead: two instances per serving process, one per
\* module, over the same persisted collection
C14_TwoInstances ==
    /\ proc = "serving" => opens = 2
    /\ \A r \in Slots :
          /\ (req[r].kind = "search" /\ req[r].log # <<>>) => req[r].store_used = "main.db_manager"
          /\ (req[r].kind = "chat" /\ req[r].store_used # "") =>
                req[r].store_used = "agents.db_manager"

InTurn(r) == req[r].pc \in {"agent_decide", "agent_tool"}

TurnEnded(r) ==
    /\ ChatDone(r) /\ req[r].single_invocations = 1
    /\ \/ req[r].status = 200 /\ req[r].agent_output = req[r].response
       \/ req[r].status = 500 /\ Failed(r)

ToolCalls(r) ==
    Cardinality({i \in 1..Len(req[r].log) : req[r].log[i].call = "similarity_search"})

\* during a turn no final answer exists yet
TurnState(r) ==
    /\ InTurn(r) =>
          /\ req[r].single_invocations = 1
          /\ req[r].agent_output = <<>> /\ req[r].status = 0
          /\ req[r].iterations = ToolCalls(r)
    /\ (ChatDone(r) /\ req[r].single_invocations = 1) => TurnEnded(r)

\* the steps of a turn
TurnStep(r) ==
    /\ (req[r].pc = "idle" /\ req'[r].single_invocations = 1) =>
          (req'[r].pc = "agent_decide" /\ req'[r].log = <<>>)
    /\ req[r].pc = "agent_decide" =>
          \/ req'[r] = req[r]
          \/ req'[r].pc = "agent_tool" /\ ToolCalls(r)' = ToolCalls(r)
          \/ req'[r].pc = "done"
    /\ req[r].pc = "agent_tool" =>
          \/ req'[r] = req[r]
          \/ req'[r].pc = "agent_decide" /\ ToolCalls(r)' = ToolCalls(r) + 1
          \/ req'[r].pc = "done" /\ req'[r].status = 500
    /\ (req[r].pc = "done" /\ req[r].single_invocations = 1) =>
          \/ req'[r] = req[r]
          \/ req'[r] = IdleReq

\* C15: a single-pass agent turn starts in awaiting-decision, invokes the
\* retrieval tool zero or more times, never invokes it after the final answer,
\* produces exactly one final answer, and eventually ends in final-answer or
\* in an error.
C15_AgentTurn ==
    /\ [](\A r \in Slots : TurnState(r))
    /\ [][\A r \in Slots : TurnStep(r)]_vars
    /\ \A r \in Slots : InTurn(r) ~> TurnEnded(r)

C15_Witness ==
    \E r \in Slots :
        /\ TurnEnded(r) /\ req[r].status = 200
        /\ ToolCalls(r) = 1
        /\ req[r].response = req[r].llm_output
        /\ Len(req[r].log) = 3

\* C16: every entry of a returned updated_chat_history has role "human" or
\* "ai"; input entries of any other role are dropped before the agent or the
\* pipeline is invoked, which gets only the human and ai entries; those keep
\* their role, content and relative order in what is invoked and returned.
C16_OnlyHumanAndAiEntries ==
    \A r \in Slots : req[r].kind = "chat" =>
        LET kept == SelectSeq(req[r].chat_history, HumanOrAi)
            out  == req[r].updated_chat_history
        IN  /\ \A i \in 1..Len(out) : HumanOrAi(out[i])
            /\ (req[r].single_invocations + req[r].multi_invocations > 0) =>
                  /\ Len(req[r].invoked_history) = Len(kept)
                  /\ \A i \in 1..Len(kept) :
                        /\ req[r].invoked_history[i].content = kept[i].content
                        /\ req[r].invoked_history[i].type =
                              (IF kept[i].role = "human" THEN "HumanMessage"
                               ELSE "AIMessage")
            /\ req[r].status = 200 =>
                  /\ Len(out) = Len(kept) + 2
                  /\ SubSeq(out, 1, Len(kept)) = kept

C16_Witness ==
    \E r \in Slots :
        /\ ChatDone(r) /\ req[r].status = 200
        /\ req[r].multi_invocations = 1
        /\ Len(req[r].chat_history) = 2
        /\ req[r].chat_history[1].role = "human"
        /\ req[r].chat_history[2].role = "system"
        /\ Len(req[r].invoked_history) = 1
        /\ Len(req[r].updated_chat_history) = 3

LastExc(r) == req[r].log[Len(req[r].log)].exc

\* the response of a direct search, from its own query and the outcome of
\* its own store call
OwnSearchResponse(r) ==
    /\ req[r].pc = "search" =>
          req[r] = [IdleReq EXCEPT !.kind = "search", !.pc = "search", !.query = req[r].query]
    /\ (Done(r) /\ req[r].status = 200) =>
          /\ req[r].log = <<Call("similarity_search", TRUE, <<>>)>>
          /\ req[r].hits \in SimilaritySearch(collection, req[r].query, DirectSearchK)
          /\ req[r].results =
                [i \in 1..Len(req[r].hits) |-> FormatResumeResult(collection[req[r].hits[i]])]
          /\ req[r].message = SearchMessage
    /\ (Done(r) /\ req[r].status # 200) =>
          /\ req[r].status = 500
          /\ req[r].detail = SearchErrorPrefix \o LastExc(r)
          /\ req[r].results = <<>>

\* the response of a chat, from its own body and the outcomes of its own
\* LLM and store calls
OwnChatResponse(r) ==
    /\ req[r].lc_chat_history = ConvertedHistory(req[r].chat_history)
    /\ (req[r].single_invocations + req[r].multi_invocations > 0) =>
          /\ req[r].invoked_input = req[r].user_message
          /\ req[r].invoked_history = req[r].lc_chat_history
    /\ "resume_search" \in Range(req[r].trace) =>
          /\ req[r].search_query \in {Strip(out) : out \in RewriteOutputs}
          /\ req[r].log[2].ok =>
                /\ req[r].hits \in SimilaritySearch(collection, req[r].search_query, ToolK)
                /\ req[r].search_results =
                      [i \in 1..Len(req[r].hits) |-> FormatToolRecord(collection[req[r].hits[i]])]
    /\ (Done(r) /\ req[r].status = 200) =>
          /\ req[r].response = req[r].agent_output
          /\ req[r].multi_invocations = 1 =>
                req[r].response = (IF req[r].search_results = <<>> THEN ApologyText
                                   ELSE Strip(req[r].llm_output))
          /\ req[r].single_invocations = 1 =>
                req[r].response \in {req[r].llm_output, StoppedText}
          /\ req[r].updated_chat_history =
                ToPydantic(ConvertedHistory(req[r].chat_history)
                           \o <<HumanMessage(req[r].user_message), AIMessage(req[r].response)>>)
    /\ (Done(r) /\ req[r].status # 200) =>
          /\ req[r].status = 500
          /\ req[r].detail = ChatErrorPrefix \o LastExc(r)
          /\ req[r].response = <<>> /\ req[r].updated_chat_history = <<>>

\* a step of one request leaves every other request, and the collection, as
\* they were
OwnStep ==
    /\ collection' = collection
    /\ \A r \in Slots : req'[r] # req[r] => \A o \in Slots \ {r} : req'[o] = req[o]

\* C17: requests that overlap are isolated: however their steps interleave,
\* each request's response (status, text, updated_chat_history, results) is
\* the one its own input and the outcomes of its own external calls give, as
\* when handled alone, and no step of a request touches another request.
C17_Isolated ==
    /\ [](\A r \in Slots :
             /\ req[r].kind = "search" => OwnSearchResponse(r)
             /\ req[r].kind = "chat" => OwnChatResponse(r)
             /\ req[r].kind = "none" => req[r] = IdleReq)
    /\ [][OwnStep]_vars

\* two pipeline requests, both answered, that asked different things and got
\* different rewritten queries, different results and different answers
C17_Witness ==
    /\ \A r \in Slots : ChatDone(r) /\ req[r].status = 200 /\ req[r].multi_invocations = 1
    /\ req[1].user_message # req[2].user_message
    /\ req[1].search_query # req[2].search_query
    /\ req[1].hits # req[2].hits
    /\ req[1].response # req[2].response
    /\ req[1].chat_history # req[2].chat_history

====
